---------------------------- MODULE Spec2Model ----------------------------
(***************************************************************************)
(* A model of players/astarplayer.py: the self-growing Map, its search     *)
(* find_path_to, and AStarPlayer.turn playing in a static maze.            *)
(*                                                                         *)
(* A Map object is a record                                                *)
(*   [pos_x, pos_y, map_x0, map_x1, map_y0, map_y1, map]                   *)
(* whose field map is the list of columns (a sequence of sequences); the   *)
(* Python index i is the TLA+ index i+1.                                   *)
(***************************************************************************)
EXTENDS Integers, Sequences, FiniteSets, TLC

\* ------------------------------------------------------------------------
\* game.mazefield_attributes, game.moves, and Python's None
\* ------------------------------------------------------------------------
Path == "Path"
Finish == "Finish"
Wall == "Wall"
Start == "Start"
None == "None"

LEFT == "LEFT"
RIGHT == "RIGHT"
UP == "UP"
DOWN == "DOWN"

\* what a call raises: NoExc when it returns normally
NoExc == "NoExc"
IndexError == "IndexError"
TypeError == "TypeError"
KeyError == "KeyError"

Abs(n) == IF n < 0 THEN -n ELSE n

\* distance between two positions using only cardinal movement
dist(x0, y0, x1, y1) == Abs(x1 - x0) + Abs(y1 - y0)

\* ------------------------------------------------------------------------
\* Python list indexing: l[i] is defined for -len(l) <= i < len(l), and a
\* negative index counts from the end
\* ------------------------------------------------------------------------
PyValid(n, i) == (-n <= i) /\ (i < n)

PyIndex(n, i) == IF i >= 0 THEN i + 1 ELSE n + i + 1

\* self.map[i][j], or IndexError
Cell(self, i, j) ==
    IF ~PyValid(Len(self.map), i) THEN IndexError
    ELSE LET column == self.map[PyIndex(Len(self.map), i)]
         IN IF ~PyValid(Len(column), j) THEN IndexError
            ELSE column[PyIndex(Len(column), j)]

\* what is stored for the logical coordinate (x, y)
Get(self, x, y) == Cell(self, x - self.map_x0, y - self.map_y0)

InBounds(self, x, y) ==
    /\ self.map_x0 <= x /\ x <= self.map_x1
    /\ self.map_y0 <= y /\ y <= self.map_y1

\* ------------------------------------------------------------------------
\* class Map
\* ------------------------------------------------------------------------
NewMap ==
    [pos_x |-> 0, pos_y |-> 0,
     map_x0 |-> 0, map_x1 |-> 0,
     map_y0 |-> 0, map_y1 |-> 0,
     map |-> << <<Path>> >>]

\* move_left stepping to the right
move_left_WrongWay(self) == [self EXCEPT !.pos_x = @ + 1]

move_left(self) == [self EXCEPT !.pos_x = @ - 1]

\* move_right that leaves the tracked position where it was
move_right_Stays(self) == self

move_right(self) == [self EXCEPT !.pos_x = @ + 1]

move_up(self) == [self EXCEPT !.pos_y = @ + 1]

move_down(self) == [self EXCEPT !.pos_y = @ - 1]

_map_height(self) == self.map_y1 - self.map_y0 + 1

_map_width(self) == self.map_x1 - self.map_x0 + 1

\* [None] * n
NoneList(n) == [i \in 1..n |-> None]

\* _grow_map_left moving map_x0 the wrong way
_grow_map_left_WrongSign(self) ==
    [self EXCEPT !.map = <<NoneList(_map_height(self))>> \o @,
                 !.map_x0 = @ + 1]

_grow_map_left(self) ==
    [self EXCEPT !.map = <<NoneList(_map_height(self))>> \o @,
                 !.map_x0 = @ - 1]

\* _grow_map_right that moves map_x1 and adds no column
_grow_map_right_NoColumn(self) == [self EXCEPT !.map_x1 = @ + 1]

_grow_map_right(self) ==
    [self EXCEPT !.map = Append(@, NoneList(_map_height(self))),
                 !.map_x1 = @ + 1]

\* _grow_map_up that extends the columns and leaves map_y1 as it was
_grow_map_up_KeepsBound(self) ==
    [self EXCEPT !.map = [c \in 1..Len(@) |-> Append(@[c], None)]]

_grow_map_up(self) ==
    [self EXCEPT !.map = [c \in 1..Len(@) |-> Append(@[c], None)],
                 !.map_y1 = @ + 1]

\* _grow_map_down adding the new value at the end of each column (as
\* _grow_map_up does) while map_y0 goes down
_grow_map_down_AtEnd(self) ==
    [self EXCEPT !.map = [c \in 1..Len(@) |-> Append(@[c], None)],
                 !.map_y0 = @ - 1]

_grow_map_down(self) ==
    [self EXCEPT !.map = [c \in 1..Len(@) |-> <<None>> \o @[c]],
                 !.map_y0 = @ - 1]

\* the growth steps as an if/elif chain: at most one of them runs
GrowSteps_Elif(self) ==
    IF self.pos_x = self.map_x0 THEN _grow_map_left(self)
    ELSE IF self.pos_x = self.map_x1 THEN _grow_map_right(self)
    ELSE IF self.pos_y = self.map_y0 THEN _grow_map_down(self)
    ELSE IF self.pos_y = self.map_y1 THEN _grow_map_up(self)
    ELSE self

\* the four growth steps of remember_surroundings, in the code's order
GrowSteps(self) ==
    LET a == IF self.pos_x = self.map_x0 THEN _grow_map_left(self) ELSE self
        b == IF a.pos_x = a.map_x1 THEN _grow_map_right(a) ELSE a
        c == IF b.pos_y = b.map_y0 THEN _grow_map_down(b) ELSE b
    IN IF c.pos_y = c.map_y1 THEN _grow_map_up(c) ELSE c

\* r is [self, exc]; self.map[i][j] = kind, unless an earlier statement raised
SetCell(r, i, j, kind) ==
    IF r.exc # NoExc THEN r
    ELSE IF Cell(r.self, i, j) = IndexError THEN [r EXCEPT !.exc = IndexError]
    ELSE LET n == Len(r.self.map)
             ci == PyIndex(n, i)
             cj == PyIndex(Len(r.self.map[ci]), j)
         IN [r EXCEPT !.self.map[ci][cj] = kind]

\* the writes of remember_surroundings without the last one (up)
WriteSurroundings_NoUp(grown, surroundings) ==
    LET x == grown.pos_x - grown.map_x0
        y == grown.pos_y - grown.map_y0
        r0 == [self |-> grown, exc |-> NoExc]
        r1 == SetCell(r0, x - 1, y, surroundings.left)
        r2 == SetCell(r1, x + 1, y, surroundings.right)
    IN SetCell(r2, x, y - 1, surroundings.down)

\* the four writes of remember_surroundings on the grown map
WriteSurroundings(grown, surroundings) ==
    LET x == grown.pos_x - grown.map_x0
        y == grown.pos_y - grown.map_y0
        r0 == [self |-> grown, exc |-> NoExc]
        r1 == SetCell(r0, x - 1, y, surroundings.left)
        r2 == SetCell(r1, x + 1, y, surroundings.right)
        r3 == SetCell(r2, x, y - 1, surroundings.down)
    IN SetCell(r3, x, y + 1, surroundings.up)

remember_surroundings(self, surroundings) ==
    WriteSurroundings(GrowSteps(self), surroundings)

\* is_interesting without the tests of the four neighbours
is_interesting_EdgeOnly(self, x, y) ==
    LET x_idx == x - self.map_x0
        y_idx == y - self.map_y0
    IN IF Cell(self, x_idx, y_idx) = IndexError THEN IndexError
       ELSE IF Cell(self, x_idx, y_idx) # Path THEN "False"
       ELSE IF x \in {self.map_x0, self.map_x1} THEN "True"
       ELSE IF y \in {self.map_y0, self.map_y1} THEN "True"
       ELSE "False"

\* "True", "False", or IndexError when an index is out of range
is_interesting(self, x, y) ==
    LET x_idx == x - self.map_x0
        y_idx == y - self.map_y0
    IN IF Cell(self, x_idx, y_idx) = IndexError THEN IndexError
       ELSE IF Cell(self, x_idx, y_idx) # Path THEN "False"
       ELSE IF x \in {self.map_x0, self.map_x1} THEN "True"
       ELSE IF y \in {self.map_y0, self.map_y1} THEN "True"
       ELSE IF Cell(self, x_idx - 1, y_idx) = IndexError THEN IndexError
       ELSE IF Cell(self, x_idx - 1, y_idx) = None THEN "True"
       ELSE IF Cell(self, x_idx + 1, y_idx) = IndexError THEN IndexError
       ELSE IF Cell(self, x_idx + 1, y_idx) = None THEN "True"
       ELSE IF Cell(self, x_idx, y_idx - 1) = IndexError THEN IndexError
       ELSE IF Cell(self, x_idx, y_idx - 1) = None THEN "True"
       ELSE IF Cell(self, x_idx, y_idx + 1) = IndexError THEN IndexError
       ELSE IF Cell(self, x_idx, y_idx + 1) = None THEN "True"
       ELSE "False"

\* range(x0, x1+1) x range(y0, y1+1) in the order of the two nested loops
RECURSIVE ScanOrder(_, _, _)
ScanOrder(self, x, y) ==
    IF x > self.map_x1 THEN <<>>
    ELSE IF y > self.map_y1 THEN ScanOrder(self, x + 1, self.map_y0)
    ELSE <<<<x, y>>>> \o ScanOrder(self, x, y + 1)

\* [exc, list]: the interesting coordinates in scan order
all_interesting(self) ==
    LET order == ScanOrder(self, self.map_x0, self.map_y0)
        raised == \E k \in 1..Len(order) :
                      is_interesting(self, order[k][1], order[k][2]) = IndexError
        keep(c) == is_interesting(self, c[1], c[2]) = "True"
    IN [exc |-> IF raised THEN IndexError ELSE NoExc,
        list |-> IF raised THEN <<>> ELSE SelectSeq(order, keep)]

\* _moves that also steps onto cells of kind None
_moves_IntoUnknown(self, x, y) ==
    LET x_idx == x - self.map_x0
        y_idx == y - self.map_y0
        open == {Path, Start, None}
        l == IF (x > self.map_x0) /\ (Cell(self, x_idx - 1, y_idx) \in open)
             THEN <<<<x - 1, y>>>> ELSE <<>>
        r == IF (x < self.map_x1) /\ (Cell(self, x_idx + 1, y_idx) \in open)
             THEN <<<<x + 1, y>>>> ELSE <<>>
        d == IF (y > self.map_y0) /\ (Cell(self, x_idx, y_idx - 1) \in open)
             THEN <<<<x, y - 1>>>> ELSE <<>>
        u == IF (y < self.map_y1) /\ (Cell(self, x_idx, y_idx + 1) \in open)
             THEN <<<<x, y + 1>>>> ELSE <<>>
    IN l \o r \o d \o u

\* _moves that steps onto cells of kind Path only
_moves_PathOnly(self, x, y) ==
    LET x_idx == x - self.map_x0
        y_idx == y - self.map_y0
        l == IF (x > self.map_x0) /\ (Cell(self, x_idx - 1, y_idx) = Path)
             THEN <<<<x - 1, y>>>> ELSE <<>>
        r == IF (x < self.map_x1) /\ (Cell(self, x_idx + 1, y_idx) = Path)
             THEN <<<<x + 1, y>>>> ELSE <<>>
        d == IF (y > self.map_y0) /\ (Cell(self, x_idx, y_idx - 1) = Path)
             THEN <<<<x, y - 1>>>> ELSE <<>>
        u == IF (y < self.map_y1) /\ (Cell(self, x_idx, y_idx + 1) = Path)
             THEN <<<<x, y + 1>>>> ELSE <<>>
    IN l \o r \o d \o u

_moves(self, x, y) ==
    LET x_idx == x - self.map_x0
        y_idx == y - self.map_y0
        l == IF (x > self.map_x0) /\ (Cell(self, x_idx - 1, y_idx) \in {Path, Start})
             THEN <<<<x - 1, y>>>> ELSE <<>>
        r == IF (x < self.map_x1) /\ (Cell(self, x_idx + 1, y_idx) \in {Path, Start})
             THEN <<<<x + 1, y>>>> ELSE <<>>
        d == IF (y > self.map_y0) /\ (Cell(self, x_idx, y_idx - 1) \in {Path, Start})
             THEN <<<<x, y - 1>>>> ELSE <<>>
        u == IF (y < self.map_y1) /\ (Cell(self, x_idx, y_idx + 1) \in {Path, Start})
             THEN <<<<x, y + 1>>>> ELSE <<>>
    IN l \o r \o d \o u


\* ------------------------------------------------------------------------
\* heapq on a list of (estimate, (x, y)) tuples; list position k is the
\* TLA+ index k+1
\* ------------------------------------------------------------------------
\* Python's tuple comparison a < b
TupleLess(a, b) ==
    \/ a[1] < b[1]
    \/ /\ a[1] = b[1]
       /\ \/ a[2][1] < b[2][1]
          \/ a[2][1] = b[2][1] /\ a[2][2] < b[2][2]

RECURSIVE _siftdown(_, _, _, _)
\* heapq._siftdown, with newitem carried along instead of stored at pos
_siftdown(heap, startpos, pos, newitem) ==
    IF pos > startpos /\ TupleLess(newitem, heap[((pos - 1) \div 2) + 1])
    THEN _siftdown([heap EXCEPT ![pos + 1] = heap[((pos - 1) \div 2) + 1]],
                   startpos, (pos - 1) \div 2, newitem)
    ELSE [heap EXCEPT ![pos + 1] = newitem]

RECURSIVE SiftUpLoop(_, _, _, _)
\* the while loop of heapq._siftup: bubble the smaller child up to a leaf
SiftUpLoop(heap, startpos, pos, newitem) ==
    LET endpos == Len(heap)
        childpos == 2 * pos + 1
        rightpos == childpos + 1
        pick == IF rightpos < endpos
                   /\ ~TupleLess(heap[childpos + 1], heap[rightpos + 1])
                THEN rightpos ELSE childpos
    IN IF childpos < endpos
       THEN SiftUpLoop([heap EXCEPT ![pos + 1] = heap[pick + 1]],
                       startpos, pick, newitem)
       ELSE _siftdown(heap, startpos, pos, newitem)

_siftup(heap, pos) == SiftUpLoop(heap, pos, pos, heap[pos + 1])

RECURSIVE HeapifyFrom(_, _)
\* for i in reversed(range(n//2)): _siftup(x, i), from position i down to 0
HeapifyFrom(x, i) ==
    IF i < 0 THEN x ELSE HeapifyFrom(_siftup(x, i), i - 1)

heapify(x) == HeapifyFrom(x, (Len(x) \div 2) - 1)

\* heapq.heappop on a non-empty heap: [item, heap]
heappop(heap) ==
    LET lastelt == heap[Len(heap)]
        rest == SubSeq(heap, 1, Len(heap) - 1)
    IN IF rest = <<>>
       THEN [item |-> lastelt, heap |-> rest]
       ELSE [item |-> rest[1],
             heap |-> _siftup([rest EXCEPT ![1] = lastelt], 0)]

\* del p[k]
DelAt(p, k) == SubSeq(p, 1, k) \o SubSeq(p, k + 2, Len(p))

\* the position of the first node of p for pos, or -1
_cur_priority(p, pos) ==
    IF \E n \in 1..Len(p) : p[n][2] = pos
    THEN (CHOOSE n \in 1..Len(p) :
              /\ p[n][2] = pos
              /\ \A k \in 1..(n - 1) : p[k][2] # pos) - 1
    ELSE -1

\* ------------------------------------------------------------------------
\* Map.find_path_to
\* ------------------------------------------------------------------------
\* the search state is [p, v]: the priority queue and the visited mapping
\* (a function from positions to <<estimate, predecessor>>)
EmptyDict == [k \in {} |-> <<>>]

\* the iteration without the test of v: every neighbour is enqueued
RelaxOne_NoVisitedTest(st, cost_nxt, node, nxt, x, y) ==
    [p |-> heapify(Append(st.p, <<cost_nxt + dist(nxt[1], nxt[2], x, y), nxt>>)),
     v |-> (nxt :> <<cost_nxt + dist(nxt[1], nxt[2], x, y), node>>) @@ st.v]

\* one iteration of the for loop over _moves: the neighbour nxt of node
RelaxOne(st, cost_nxt, node, nxt, x, y) ==
    LET est_nxt == cost_nxt + dist(nxt[1], nxt[2], x, y)
        seen == nxt \in DOMAIN st.v
        cost_last == st.v[nxt][1]
        priority_idx == _cur_priority(st.p, nxt)
        supersede == /\ seen
                     /\ ~(cost_last > est_nxt)
                     /\ priority_idx # -1
                     /\ st.p[priority_idx + 1][1] > est_nxt
        enqueue == (~seen) \/ (cost_last > est_nxt) \/ supersede
        p1 == IF supersede THEN DelAt(st.p, priority_idx) ELSE st.p
    IN IF enqueue
       THEN [p |-> heapify(Append(p1, <<est_nxt, nxt>>)),
             v |-> (nxt :> <<est_nxt, node>>) @@ st.v]
       ELSE st

RECURSIVE RelaxAll(_, _, _, _, _, _, _)
RelaxAll(st, cost_nxt, node, ms, k, x, y) ==
    IF k > Len(ms) THEN st
    ELSE RelaxAll(RelaxOne(st, cost_nxt, node, ms[k], x, y),
                  cost_nxt, node, ms, k + 1, x, y)

RECURSIVE BuildPath(_, _, _, _, _)
\* the predecessor walk, before path.reverse(); fuel bounds the walk, which
\* visits each key of v once unless the links loop
BuildPath(v, origin, path_pos, path, fuel) ==
    IF path_pos = origin THEN [kind |-> "path", path |-> path]
    ELSE IF fuel = 0 THEN [kind |-> "diverges", path |-> path]
    ELSE IF path_pos \notin DOMAIN v THEN [kind |-> KeyError, path |-> path]
    ELSE BuildPath(v, origin, v[path_pos][2], Append(path, path_pos), fuel - 1)

\* path.reverse() left out
Reverse_LeftOut(s) == s

\* path.reverse()
Reverse(s) == [k \in 1..Len(s) |-> s[Len(s) + 1 - k]]

\* how many pops the model follows before it reports that the while loop
\* does not end: more than twice the number of cells
PopBudget(self) == 2 * _map_width(self) * _map_height(self) + 2

RECURSIVE SearchLoop(_, _, _, _, _)
\* the while loop: [kind, path] with kind "path" (a path is returned),
\* "None" (None is returned), KeyError, or "diverges" (the loop or the
\* predecessor walk would not end)
SearchLoop(self, x, y, st, budget) ==
    IF st.p = <<>> THEN [kind |-> "None", path |-> <<>>]
    ELSE IF budget = 0 THEN [kind |-> "diverges", path |-> <<>>]
    ELSE LET popped == heappop(st.p)
             cost == popped.item[1]
             pos == popped.item[2]
             origin == <<self.pos_x, self.pos_y>>
         IN IF pos = <<x, y>>
            THEN LET walked == BuildPath(st.v, origin, pos, <<>>,
                                         Cardinality(DOMAIN st.v) + 1)
                 IN [walked EXCEPT !.path = Reverse(@)]
            ELSE SearchLoop(self, x, y,
                            RelaxAll([st EXCEPT !.p = popped.heap], cost + 1,
                                     pos, _moves(self, pos[1], pos[2]), 1, x, y),
                            budget - 1)

find_path_to(self, x, y) ==
    SearchLoop(self, x, y,
               [p |-> <<<<0, <<self.pos_x, self.pos_y>>>>>>, v |-> EmptyDict],
               PopBudget(self))

\* ------------------------------------------------------------------------
\* The same loop, keeping what find_path_to goes through: the queue p and
\* the visited mapping v at the head of the while loop, after the pop, and
\* after each iteration of the for loop, there with the neighbour nxt that
\* the iteration handled and whether p held an entry for it before
\* ------------------------------------------------------------------------
AtLoop(st) == [p |-> st.p, v |-> st.v, nxt |-> <<>>, queued |-> FALSE]

AfterRelax(st, after, nxt) ==
    [p |-> after.p, v |-> after.v, nxt |-> nxt,
     queued |-> _cur_priority(st.p, nxt) # -1]

RECURSIVE RelaxTrace(_, _, _, _, _, _, _)
RelaxTrace(st, cost_nxt, node, ms, k, x, y) ==
    IF k > Len(ms) THEN <<>>
    ELSE <<AfterRelax(st, RelaxOne(st, cost_nxt, node, ms[k], x, y), ms[k])>>
         \o RelaxTrace(RelaxOne(st, cost_nxt, node, ms[k], x, y),
                       cost_nxt, node, ms, k + 1, x, y)

RECURSIVE SearchTrace(_, _, _, _, _)
\* the trace of one pass through the while loop, and of the passes after it
PassTrace(self, x, y, steps, budget) ==
    steps \o SearchTrace(self, x, y,
                         [p |-> steps[Len(steps)].p, v |-> steps[Len(steps)].v],
                         budget - 1)

SearchTrace(self, x, y, st, budget) ==
    IF st.p = <<>> \/ budget = 0 THEN <<AtLoop(st)>>
    ELSE LET popped == heappop(st.p)
             popped_st == [st EXCEPT !.p = popped.heap]
         IN IF popped.item[2] = <<x, y>> THEN <<AtLoop(st), AtLoop(popped_st)>>
            ELSE PassTrace(self, x, y,
                           <<AtLoop(st), AtLoop(popped_st)>>
                           \o RelaxTrace(popped_st, popped.item[1] + 1,
                                         popped.item[2],
                                         _moves(self, popped.item[2][1],
                                                popped.item[2][2]),
                                         1, x, y),
                           budget)

\* what a run of find_path_to(x, y) goes through
find_path_to_Trace(self, x, y) ==
    SearchTrace(self, x, y,
                [p |-> <<<<0, <<self.pos_x, self.pos_y>>>>>>, v |-> EmptyDict],
                PopBudget(self))

\* ------------------------------------------------------------------------
\* AStarPlayer.turn
\* ------------------------------------------------------------------------
NoPath == [kind |-> "None", path |-> <<>>]

\* path = self.map.find_path_to(candidate[0], candidate[1]) of each iteration
\* of the for loop over the candidates
CandidatePaths(self, candidates) ==
    [k \in 1..Len(candidates) |->
        find_path_to(self, candidates[k][1], candidates[k][2])]

RECURSIVE ShortestPath_LastWins(_, _, _)
\* the for loop with len(path) <= len(shortest_path): the last of the
\* shortest paths wins
ShortestPath_LastWins(paths, k, shortest_path) ==
    IF k > Len(paths) THEN shortest_path
    ELSE IF paths[k].kind \notin {"path", "None"} THEN paths[k]
    ELSE IF paths[k].kind = "None"
    THEN ShortestPath_LastWins(paths, k + 1, shortest_path)
    ELSE IF (shortest_path.kind = "None")
            \/ (Len(paths[k].path) <= Len(shortest_path.path))
    THEN ShortestPath_LastWins(paths, k + 1, paths[k])
    ELSE ShortestPath_LastWins(paths, k + 1, shortest_path)

RECURSIVE ShortestPath(_, _, _)
\* the for loop over the candidates: shortest_path as [kind, path], or the
\* failure of a find_path_to call
ShortestPath(paths, k, shortest_path) ==
    IF k > Len(paths) THEN shortest_path
    ELSE IF paths[k].kind \notin {"path", "None"} THEN paths[k]
    ELSE IF paths[k].kind = "None"
    THEN ShortestPath(paths, k + 1, shortest_path)
    ELSE IF (shortest_path.kind = "None")
            \/ (Len(paths[k].path) < Len(shortest_path.path))
    THEN ShortestPath(paths, k + 1, paths[k])
    ELSE ShortestPath(paths, k + 1, shortest_path)

Returns(self, move, grownMap) ==
    [self |-> self, ret |-> move, exc |-> NoExc, grown |-> grownMap]

Raises(self, what, grownMap) ==
    [self |-> self, ret |-> "unset", exc |-> what, grown |-> grownMap]

\* next_pos = shortest_path[0] and the move towards it; g is the Map as it
\* was after the growth steps
MoveAlong(self, shortest_path, g) ==
    IF shortest_path.kind \notin {"path", "None"}
    THEN Raises(self, shortest_path.kind, g)
    \* shortest_path[0] with shortest_path None, or an empty list
    ELSE IF shortest_path.kind = "None" THEN Raises(self, TypeError, g)
    ELSE IF shortest_path.path = <<>> THEN Raises(self, IndexError, g)
    ELSE IF self.pos_x + 1 = shortest_path.path[1][1]
    THEN Returns(move_right(self), RIGHT, g)
    ELSE IF self.pos_x - 1 = shortest_path.path[1][1]
    THEN Returns(move_left(self), LEFT, g)
    ELSE IF self.pos_y + 1 = shortest_path.path[1][2]
    THEN Returns(move_up(self), UP, g)
    ELSE IF self.pos_y - 1 = shortest_path.path[1][2]
    THEN Returns(move_down(self), DOWN, g)
    ELSE Returns(self, "pass", g)

\* the search for the nearest of the candidates and the move towards it
FollowShortest(self, candidates, g) ==
    IF candidates.exc # NoExc THEN Raises(self, candidates.exc, g)
    ELSE MoveAlong(self,
                   ShortestPath(CandidatePaths(self, candidates.list), 1, NoPath),
                   g)

\* turn after remember_surroundings, whose outcome is r
Remembered(r, g) ==
    IF r.exc # NoExc THEN Raises(r.self, r.exc, g)
    ELSE FollowShortest(r.self, all_interesting(r.self), g)

\* turn after the growth steps of remember_surroundings, which gave g
Grown(g, surroundings) == Remembered(WriteSurroundings(g, surroundings), g)

\* the part of turn after the victory check
Explore(self, surroundings) == Grown(GrowSteps(self), surroundings)

\* turn without the victory check
turn_NoVictoryCheck(self, surroundings) == Explore(self, surroundings)

\* turn with the victory check in the order up, down, left, right
turn_UpDownFirst(self, surroundings) ==
    IF surroundings.up = Finish THEN Returns(self, UP, self)
    ELSE IF surroundings.down = Finish THEN Returns(self, DOWN, self)
    ELSE IF surroundings.left = Finish THEN Returns(self, LEFT, self)
    ELSE IF surroundings.right = Finish THEN Returns(self, RIGHT, self)
    ELSE Explore(self, surroundings)

\* [self, ret, exc, grown]: the Map afterwards, what turn returns or raises,
\* and the Map as it was after the growth steps (self when there were none)
turn(self, surroundings) ==
    IF surroundings.left = Finish THEN Returns(self, LEFT, self)
    ELSE IF surroundings.right = Finish THEN Returns(self, RIGHT, self)
    ELSE IF surroundings.up = Finish THEN Returns(self, UP, self)
    ELSE IF surroundings.down = Finish THEN Returns(self, DOWN, self)
    ELSE Explore(self, surroundings)

\* no call of turn yet: no surroundings were handed over
NoSurroundings == [left |-> None, right |-> None, up |-> None, down |-> None]

\* find_path_to has not run yet
NotRun == [kind |-> "unset", path |-> <<>>]

\* ------------------------------------------------------------------------
\* State
\* ------------------------------------------------------------------------
VARIABLES
    maze,      \* the static maze: a function from its cells to their kinds
    loc,       \* where the agent really is, as a cell <<x, y>> of the maze
    player,    \* AStarPlayer.map, the Map object
    ret,       \* what the last call of turn returned ("unset" before it)
    exc,       \* what the last call of turn raised (NoExc when it returned)
    status,    \* "playing", "won" (moved onto Finish) or "crashed" (turn raised)
    turns,     \* how many times the driver has called turn
    sur,       \* the surroundings handed to the last call of turn
    before,    \* the Map as the last call of turn found it
    grown,     \* the Map of the last call after its growth steps
    target,    \* find_path_to's argument (x, y) in the search specification
    found      \* find_path_to's result there

vars == <<maze, loc, player, ret, exc, status, turns, sur, before, grown, target, found>>

\* ------------------------------------------------------------------------
\* The search on its own: find_path_to applied to every map of a small grid
\* and to the two-corridor map, from every position the agent can stand on
\* ------------------------------------------------------------------------
GridW == 2
GridH == 2

\* an input map is drawn over one passable and one blocked kind
KindPairs == {{Path, Wall}, {Start, None}, {Path, Finish}}

GridMap(cells, px, py) ==
    [pos_x |-> px, pos_y |-> py,
     map_x0 |-> 0, map_x1 |-> Len(cells) - 1,
     map_y0 |-> 0, map_y1 |-> Len(cells[1]) - 1,
     map |-> cells]

\* Two corridors lead from the Start at (6, 1) to the column x = 2: the upper
\* one (y = 2) is part of the shortest route to (0, 0), the lower one (y = 0)
\* is two steps longer but nearer to (0, 0).  Behind the Wall at x = 7 lies a
\* room that no route enters.  Columns are listed left to right, each from
\* y = 0 up.
CorridorCells ==
    << <<Path, Path, Path>>,
       <<Wall, Wall, Path>>,
       <<Path, Path, Path>>,
       <<Path, Path, Path>>,
       <<Path, Wall, Path>>,
       <<Path, Wall, Path>>,
       <<Path, Start, Path>>,
       <<Wall, Wall, Wall>>,
       <<Path, Path, Path>> >>

\* the inputs of the search: the maps of the grid and the two-corridor map,
\* each with every position whose cell the agent can stand on
SearchInputs(self) ==
    /\ \/ \E pair \in KindPairs :
              \E cells \in [1..GridW -> [1..GridH -> pair]] :
                  \E px \in 0..(GridW - 1), py \in 0..(GridH - 1) :
                      self = GridMap(cells, px, py)
       \/ \E px \in 0..(Len(CorridorCells) - 1), py \in 0..(Len(CorridorCells[1]) - 1) :
              self = GridMap(CorridorCells, px, py)
    /\ Get(self, self.pos_x, self.pos_y) \in {Path, Start}

Coordinates(self) ==
    {<<x, y>> : x \in self.map_x0..self.map_x1, y \in self.map_y0..self.map_y1}

SearchInit ==
    /\ SearchInputs(player)
    /\ target \in Coordinates(player)
    /\ found = NotRun
    /\ maze = <<>>
    /\ loc = <<0, 0>>
    /\ ret = "unset"
    /\ exc = NoExc
    /\ status = "search"
    /\ turns = 0
    /\ sur = NoSurroundings
    /\ before = player
    /\ grown = player

Search ==
    /\ found = NotRun
    /\ found' = find_path_to(player, target[1], target[2])
    /\ UNCHANGED <<maze, loc, player, ret, exc, status, turns, sur, before, grown, target>>

SearchNext == Search

SearchSpec == SearchInit /\ [][SearchNext]_vars

\* ------------------------------------------------------------------------
\* The game: a static maze, the driver that reports the true surroundings
\* of the agent's cell to turn and applies the move turn returns
\* ------------------------------------------------------------------------
\* a maze has at most MaxOpen cells that are not Wall, its Start among them
MaxOpen == 4

Neighbours(c) ==
    {<<c[1] - 1, c[2]>>, <<c[1] + 1, c[2]>>, <<c[1], c[2] - 1>>, <<c[1], c[2] + 1>>}

RECURSIVE Shapes(_)
\* the connected sets of at most n cells that contain the cell (0, 0)
Shapes(n) ==
    IF n <= 1 THEN {{<<0, 0>>}}
    ELSE LET smaller == Shapes(n - 1)
         IN smaller \cup
            {s \cup {c} : <<s, c>> \in
                {<<s, c>> \in smaller \X
                     {<<x, y>> : x \in (1 - n)..(n - 1), y \in (1 - n)..(n - 1)} :
                   c \notin s /\ Neighbours(c) \cap s # {}}}

\* a maze is a function from its open cells to their kinds: Start at (0, 0),
\* Path or Finish elsewhere; every other cell is Wall
Mazes ==
    UNION {{m \in [shape -> {Start, Path, Finish}] :
                \A c \in shape : (m[c] = Start) <=> (c = <<0, 0>>)} :
           shape \in Shapes(MaxOpen)}

KindAt(c) == IF c \in DOMAIN maze THEN maze[c] ELSE Wall

\* the surroundings of the cell c
Surroundings(c) ==
    [left |-> KindAt(<<c[1] - 1, c[2]>>),
     right |-> KindAt(<<c[1] + 1, c[2]>>),
     up |-> KindAt(<<c[1], c[2] + 1>>),
     down |-> KindAt(<<c[1], c[2] - 1>>)]

Destination(c, move) ==
    CASE move = LEFT -> <<c[1] - 1, c[2]>>
      [] move = RIGHT -> <<c[1] + 1, c[2]>>
      [] move = UP -> <<c[1], c[2] + 1>>
      [] move = DOWN -> <<c[1], c[2] - 1>>
      [] OTHER -> c

\* the driver applies a move unless it leads into a Wall
Apply(c, move) ==
    IF KindAt(Destination(c, move)) = Wall THEN c ELSE Destination(c, move)

\* the model follows a game for this many calls of turn; no game of the
\* mazes above lasts that long (CallsSuffice)
MaxTurns == 3 * MaxOpen

Init ==
    /\ maze \in Mazes
    /\ loc = <<0, 0>>
    /\ player = NewMap
    /\ ret = "unset"
    /\ exc = NoExc
    /\ status = "playing"
    /\ turns = 0
    /\ sur = NoSurroundings
    /\ before = NewMap
    /\ grown = NewMap
    /\ target = <<0, 0>>
    /\ found = NotRun

\* one call of turn by the driver, and the driver's application of the move
Turn ==
    /\ status = "playing"
    /\ turns < MaxTurns
    /\ turns' = turns + 1
    /\ \E t \in {turn(player, Surroundings(loc))} :
           \E there \in {IF t.exc = NoExc THEN Apply(loc, t.ret) ELSE loc} :
               /\ sur' = Surroundings(loc)
               /\ before' = player
               /\ grown' = t.grown
               /\ player' = t.self
               /\ ret' = t.ret
               /\ exc' = t.exc
               /\ loc' = there
               /\ status' = IF t.exc # NoExc THEN "crashed"
                            ELSE IF KindAt(there) = Finish THEN "won"
                            ELSE "playing"
    /\ UNCHANGED <<maze, target, found>>

Next == Turn

Spec == Init /\ [][Next]_vars

\* The driver keeps calling turn until the game is over.  Turn is the only
\* action that changes turns and it is enabled whenever Called is, so this
\* is WF_vars(Turn), stated through the guard of Turn alone.
Called == status = "playing" /\ turns < MaxTurns /\ turns' = turns + 1

FairSpec == Spec /\ WF_turns(Called)

\* ------------------------------------------------------------------------
\* The graph the search is meant to work on: an edge leads from a position
\* to each in-bounds cardinal neighbour of kind Path or Start
\* ------------------------------------------------------------------------
Cardinal(a, b) == dist(a[1], a[2], b[1], b[2]) = 1

Passable(self, c) ==
    InBounds(self, c[1], c[2]) /\ Get(self, c[1], c[2]) \in {Path, Start}

StepsFrom(self, cs) ==
    {c \in Coordinates(self) : Passable(self, c) /\ \E a \in cs : Cardinal(a, c)}

RECURSIVE BfsLevels(_, _, _, _, _)
\* breadth-first distance from the frontier (at distance d) to goal, -1 if none
BfsLevels(self, frontier, seen, d, goal) ==
    IF goal \in frontier THEN d
    ELSE LET next == StepsFrom(self, frontier) \ seen
         IN IF next = {} THEN -1
            ELSE BfsLevels(self, next, seen \cup next, d + 1, goal)

BfsDistance(self, goal) ==
    LET origin == <<self.pos_x, self.pos_y>>
    IN BfsLevels(self, {origin}, {origin}, 0, goal)

Connected(self, goal) == BfsDistance(self, goal) # -1

\* C3: whenever find_path_to returns a path, its length is the breadth-first
\* distance from the current position to the target.
C3_PathIsShortest ==
    found.kind = "path" => Len(found.path) = BfsDistance(player, target)

\* a returned path: cardinal steps from the origin to the target, without
\* the origin and without a repeated position
ValidPath(origin, goal, path) ==
    /\ Len(path) >= 1
    /\ Cardinal(origin, path[1])
    /\ \A k \in 1..(Len(path) - 1) : Cardinal(path[k], path[k + 1])
    /\ path[Len(path)] = goal
    /\ \A k \in 1..Len(path) : path[k] # origin
    /\ \A j, k \in 1..Len(path) : path[j] = path[k] => j = k

\* C4: find_path_to ends by returning a path or None (the predecessor walk
\* ends and finds every link), and a path returned for a target other than
\* the current position is a valid path to it.
C4_PathIsValid ==
    found # NotRun =>
        /\ found.kind \in {"path", "None"}
        /\ (found.kind = "path" /\ target # <<player.pos_x, player.pos_y>>)
               => ValidPath(<<player.pos_x, player.pos_y>>, target, found.path)

C4_Witness ==
    /\ found.kind = "path"
    /\ Len(found.path) >= 4
    /\ ValidPath(<<player.pos_x, player.pos_y>>, target, found.path)

\* C10: for a target that is not connected to the current position,
\* find_path_to ends and returns None.
C10_UnreachableIsNone ==
    (found # NotRun /\ ~Connected(player, target)) => found.kind = "None"

C10_Witness ==
    /\ found.kind = "None"
    /\ Get(player, target[1], target[2]) \in {Path, Start}
    /\ \E c \in Coordinates(player) :
           /\ Cardinal(c, <<player.pos_x, player.pos_y>>)
           /\ Passable(player, c)

\* ------------------------------------------------------------------------
\* The claims about turn, checked in the game
\* ------------------------------------------------------------------------
\* turn has been called at least once
TurnDone == turns > 0

\* the bound on the calls of turn never ends a game
CallsSuffice == status = "playing" => turns < MaxTurns

HasFinish(s) == Finish \in {s.left, s.right, s.up, s.down}

\* the last call of turn went past the victory check
Explored == TurnDone /\ ~HasFinish(sur)

\* the Map of the last call after remember_surroundings
Sensed == WriteSurroundings(grown, sur).self

StrictlyInside(self) ==
    /\ self.map_x0 < self.pos_x /\ self.pos_x < self.map_x1
    /\ self.map_y0 < self.pos_y /\ self.pos_y < self.map_y1

RECURSIVE PathRegion(_)
\* the cells reached from the set cs through Path cells of the maze
PathRegion(cs) ==
    LET more == {c \in DOMAIN maze :
                    maze[c] = Path /\ Neighbours(c) \cap cs # {}} \ cs
    IN IF more = {} THEN cs ELSE PathRegion(cs \cup more)

\* a Finish cell is next to a cell reached from the start through Path cells
FinishReachable ==
    \E c \in PathRegion({<<0, 0>>}) : \E n \in Neighbours(c) : KindAt(n) = Finish

\* the last call of turn returned the move onto a Finish neighbour
MovedOntoFinish ==
    /\ status = "won"
    /\ \/ ret = LEFT /\ sur.left = Finish
       \/ ret = RIGHT /\ sur.right = Finish
       \/ ret = UP /\ sur.up = Finish
       \/ ret = DOWN /\ sur.down = Finish

\* C1: in a maze whose Finish is reachable from the start through Path
\* cells, the calls of turn lead to a call that returns the move onto a
\* Finish neighbour (the agent neither stops nor circles before it).
C1_ReachesFinish == FinishReachable ~> MovedOntoFinish

\* the Finish is reached after a walk that had to turn back on its steps
C1_Witness ==
    /\ MovedOntoFinish
    /\ turns >= 4

\* no candidate of the last call yielded a path
NoViableCandidate ==
    /\ Explored
    /\ exc \notin {IndexError, KeyError}
    /\ ShortestPath(CandidatePaths(Sensed, all_interesting(Sensed).list), 1, NoPath).kind = "None"

\* C2: a call of turn that finds no path to any interesting cell returns
\* "pass" and raises nothing.
C2_NoPathIsPass == NoViableCandidate => (exc = NoExc /\ ret = "pass")

\* C5 as claimed: after a call of turn the tracked position is strictly
\* inside the bounds.
C5_StrictlyInsideAfterTurn == TurnDone => StrictlyInside(player)

\* C5 as amended: after a call of turn the tracked position is inside the
\* bounds, possibly on one of them.
C5_InsideAfterTurn ==
    TurnDone => InBounds(player, player.pos_x, player.pos_y)

C5_Witness ==
    /\ TurnDone
    /\ ret = RIGHT
    /\ status = "playing"
    /\ player.pos_x = player.map_x1

\* new holds every value of old at its coordinate and None everywhere else
Preserves(old, new) ==
    /\ \A c \in Coordinates(old) : Get(new, c[1], c[2]) = Get(old, c[1], c[2])
    /\ \A c \in Coordinates(new) \ Coordinates(old) : Get(new, c[1], c[2]) = None

\* C6: the growth steps of a call, and each single growth step applied to
\* the Map, keep the value at every existing coordinate and add only None.
C6_GrowthPreserves ==
    /\ Preserves(before, grown)
    /\ Preserves(player, _grow_map_left(player))
    /\ Preserves(player, _grow_map_right(player))
    /\ Preserves(player, _grow_map_up(player))
    /\ Preserves(player, _grow_map_down(player))
    /\ Preserves(player, GrowSteps(player))

\* a growth downwards, which re-indexes every column, of a Map that holds
\* what earlier calls wrote
C6_Witness ==
    /\ Explored
    /\ turns >= 3
    /\ grown.map_y0 < before.map_y0
    /\ Cardinality({c \in Coordinates(before) :
                       Get(before, c[1], c[2]) # None}) >= 6

FirstFinish(s) ==
    IF s.left = Finish THEN LEFT
    ELSE IF s.right = Finish THEN RIGHT
    ELSE IF s.up = Finish THEN UP
    ELSE DOWN

\* C7: with a Finish among the surroundings, turn returns the move to the
\* first Finish neighbour in the order left, right, up, down and leaves the
\* Map (contents, bounds, position) as it was.
C7_VictoryTouchesNothing ==
    (TurnDone /\ HasFinish(sur)) =>
        /\ exc = NoExc
        /\ ret = FirstFinish(sur)
        /\ player = before
        /\ grown = before

C7_Witness ==
    /\ TurnDone
    /\ sur.left # Finish
    /\ sur.right = Finish
    /\ sur.up = Finish
    /\ ret = RIGHT
    /\ before # NewMap

\* C8: the four writes of remember_surroundings leave every coordinate that
\* held a kind holding that kind.
C8_NeverOverwrites ==
    Explored =>
        \A c \in Coordinates(grown) :
            Get(grown, c[1], c[2]) # None
                => Get(Sensed, c[1], c[2]) = Get(grown, c[1], c[2])

\* C9: after the growth steps the position is strictly inside the bounds,
\* and the four writes use list indexes that exist and are not negative.
C9_InteriorBeforeWrites ==
    Explored =>
        LET x == grown.pos_x - grown.map_x0
            y == grown.pos_y - grown.map_y0
        IN /\ StrictlyInside(grown)
           /\ x - 1 >= 0 /\ x + 1 < Len(grown.map)
           /\ \A c \in {x - 1, x, x + 1} :
                  y - 1 >= 0 /\ y + 1 < Len(grown.map[c + 1])
           /\ exc # IndexError

C9_Witness ==
    /\ Explored
    /\ before.pos_x = before.map_x0
    /\ before.pos_x < 0
    /\ grown.map_x0 = before.map_x0 - 1

\* ------------------------------------------------------------------------
\* The claims about is_interesting and all_interesting
\* ------------------------------------------------------------------------
Range(seq) == {seq[k] : k \in 1..Len(seq)}

OnBoundary(self, c) ==
    \/ c[1] \in {self.map_x0, self.map_x1}
    \/ c[2] \in {self.map_y0, self.map_y1}

NextToUnknown(self, c) ==
    \E n \in Neighbours(c) : InBounds(self, n[1], n[2]) /\ Get(self, n[1], n[2]) = None

\* the coordinates the claim calls interesting
Interesting(self) ==
    {c \in Coordinates(self) :
        /\ Get(self, c[1], c[2]) = Path
        /\ OnBoundary(self, c) \/ NextToUnknown(self, c)}

\* all_interesting returns, without raising, each interesting coordinate
\* once and nothing else
ExactlyInteresting(self) ==
    \E a \in {all_interesting(self)} :
        /\ a.exc = NoExc
        /\ Range(a.list) = Interesting(self)
        /\ Len(a.list) = Cardinality(Interesting(self))

\* C11: on the Map before a call, after its growth steps, after its writes
\* and after its move, all_interesting returns exactly the in-bounds Path
\* coordinates that lie on a bound or have an Unknown cardinal neighbour.
C11_ExactlyInteresting ==
    /\ ExactlyInteresting(before)
    /\ ExactlyInteresting(grown)
    /\ ExactlyInteresting(player)
    /\ Explored => ExactlyInteresting(Sensed)

\* an interesting cell that is off the bounds, and a Path cell that is not
\* interesting
C11_Witness ==
    /\ Explored
    /\ \E c \in Interesting(Sensed) : ~OnBoundary(Sensed, c)
    /\ \E c \in Coordinates(Sensed) :
           Get(Sensed, c[1], c[2]) = Path /\ c \notin Interesting(Sensed)

\* the coordinates up to two steps outside the bounds
Outside(self) ==
    {<<x, y>> : x \in (self.map_x0 - 2)..(self.map_x1 + 2),
                y \in (self.map_y0 - 2)..(self.map_y1 + 2)} \ Coordinates(self)

\* C12: is_interesting returns False for every coordinate outside the bounds.
C12_OutsideIsFalse ==
    \A c \in Outside(player) : is_interesting(player, c[1], c[2]) = "False"

\* ------------------------------------------------------------------------
\* The example scenario: the first turn of a fresh agent with a Path to the
\* right and Wall on the other three sides
\* ------------------------------------------------------------------------
RightPath == [left |-> Wall, right |-> Path, up |-> Wall, down |-> Wall]

FirstTurnRightPath == turns = 1 /\ before = NewMap /\ sur = RightPath

\* C13 as claimed: remember_surroundings of that turn grows the map to the
\* right only.
C13_GrowsRightOnly ==
    FirstTurnRightPath =>
        /\ grown.map_x1 = 1
        /\ grown.map_x0 = 0 /\ grown.map_y0 = 0 /\ grown.map_y1 = 0

\* C13 as amended: the position (0, 0) touches all four bounds, so the map
\* grows in all four directions, to the bounds -1..1 by -1..1 with the
\* starting cell in the middle of a 3 by 3 storage.
C13_GrowsAllFour ==
    FirstTurnRightPath =>
        /\ grown.map_x0 = -1 /\ grown.map_x1 = 1
        /\ grown.map_y0 = -1 /\ grown.map_y1 = 1
        /\ grown.map = << <<None, None, None>>,
                          <<None, Path, None>>,
                          <<None, None, None>> >>
        /\ grown.pos_x = 0 /\ grown.pos_y = 0

C13_Witness == FirstTurnRightPath /\ grown # before /\ exc = NoExc

\* C14: on that first turn all_interesting returns exactly [(1, 0)],
\* find_path_to(1, 0) returns [(1, 0)], turn returns RIGHT and the tracked
\* position becomes (1, 0).
C14_FirstTurnMovesRight ==
    FirstTurnRightPath =>
        /\ all_interesting(Sensed) = [exc |-> NoExc, list |-> <<<<1, 0>>>>]
        /\ find_path_to(Sensed, 1, 0) = [kind |-> "path", path |-> <<<<1, 0>>>>]
        /\ exc = NoExc
        /\ ret = RIGHT
        /\ player.pos_x = 1 /\ player.pos_y = 0

C14_Witness ==
    /\ FirstTurnRightPath
    /\ ret = RIGHT
    /\ loc = <<1, 0>>
    /\ Get(player, 1, 0) = Path

\* ------------------------------------------------------------------------
\* The claims about the choice of the path and the move
\* ------------------------------------------------------------------------
\* what find_path_to returned for the candidates of the last call, in the
\* order of all_interesting
SensedPaths == CandidatePaths(Sensed, all_interesting(Sensed).list)

\* the candidates that yielded a path
Yielding(paths) == {k \in 1..Len(paths) : paths[k].kind = "path"}

\* candidate k yielded a path that no other path is shorter than, and is the
\* first such candidate in the order of all_interesting
FirstShortest(paths, k) ==
    /\ k \in Yielding(paths)
    /\ \A j \in Yielding(paths) :
           \/ Len(paths[k].path) < Len(paths[j].path)
           \/ Len(paths[k].path) = Len(paths[j].path) /\ k <= j

\* the last call of turn went past the victory check and a candidate
\* yielded a path
HasWinningPath == Explored /\ exc = NoExc /\ Yielding(SensedPaths) # {}

\* results of find_path_to for up to three candidates, None among them
ResultLists ==
    UNION {[1..n -> {NoPath,
                     [kind |-> "path", path |-> <<<<1, 0>>>>],
                     [kind |-> "path", path |-> <<<<0, 1>>>>],
                     [kind |-> "path", path |-> <<<<0, 1>>, <<0, 2>>>>]}] :
           n \in 1..3}

\* the loop over the candidates passes over None and keeps the first of the
\* shortest paths
SkipsNone ==
    \A paths \in ResultLists :
        IF Yielding(paths) = {} THEN ShortestPath(paths, 1, NoPath) = NoPath
        ELSE \E k \in Yielding(paths) :
                 FirstShortest(paths, k) /\ ShortestPath(paths, 1, NoPath) = paths[k]

\* C15: the path turn acts on is the first of the shortest paths that
\* find_path_to returned for the interesting cells: the loop keeps it
\* (passing over None), and the position after the move is its first
\* position.
C15_FirstShortestWins ==
    /\ TurnDone => SkipsNone
    /\ HasWinningPath =>
           \E paths \in {SensedPaths} :
               \E k \in Yielding(paths) :
                   /\ FirstShortest(paths, k)
                   /\ ShortestPath(paths, 1, NoPath) = paths[k]
                   /\ <<player.pos_x, player.pos_y>> = paths[k].path[1]

\* after the first turn, two candidates yield shortest paths that start with
\* different steps
C15_Witness ==
    /\ HasWinningPath
    /\ turns >= 2
    /\ \E paths \in {SensedPaths} :
           \E k, j \in Yielding(paths) :
               /\ FirstShortest(paths, k)
               /\ k < j
               /\ Len(paths[j].path) = Len(paths[k].path)
               /\ paths[j].path[1] # paths[k].path[1]

\* the winning path of the last call
WinningPath ==
    (CHOOSE p \in Range(SensedPaths) :
        \E k \in Yielding(SensedPaths) :
            FirstShortest(SensedPaths, k) /\ p = SensedPaths[k]).path

\* C16: with a winning path, turn returns one of the four moves, the move
\* is the cardinal step from the old position to the first position of the
\* winning path, the new position is that position and nothing else of the
\* Map changes; turn never returns "pass".
C16_MoveIsFirstStep ==
    /\ ret # "pass"
    /\ HasWinningPath =>
           \E old \in {<<before.pos_x, before.pos_y>>} :
               \E first \in {WinningPath[1]} :
                   /\ ret \in {LEFT, RIGHT, UP, DOWN}
                   /\ Cardinal(old, first)
                   /\ Destination(old, ret) = first
                   /\ <<player.pos_x, player.pos_y>> = first
                   /\ player = [Sensed EXCEPT !.pos_x = first[1], !.pos_y = first[2]]

\* the first step, upwards, of a winning path of several steps
C16_Witness ==
    /\ HasWinningPath
    /\ Len(WinningPath) >= 2
    /\ ret = UP
    /\ player.pos_y = before.pos_y + 1

\* C17: on every non-victory turn each cell that all_interesting returns is
\* connected to the position through in-bounds Path and Start cells, and
\* find_path_to returns a path for it, never None.
C17_CandidatesReachable ==
    (Explored /\ exc # IndexError) =>
        \E cands \in {all_interesting(Sensed).list} :
            \A k \in 1..Len(cands) :
                /\ Connected(Sensed, cands[k])
                /\ SensedPaths[k].kind = "path"

\* two candidates, one of them behind the Start cell
C17_Witness ==
    /\ Explored
    /\ exc = NoExc
    /\ Len(SensedPaths) >= 2
    /\ \E k \in Yielding(SensedPaths) :
           /\ Len(SensedPaths[k].path) >= 2
           /\ <<0, 0>> \in Range(SensedPaths[k].path)

\* C18: after remember_surroundings of a non-victory turn the position is a
\* Path or Start cell strictly inside the bounds with four known
\* neighbours, all_interesting does not return it, no candidate's path is
\* empty and the first step of the winning path exists.
C18_PositionNotInteresting ==
    Explored =>
        \E pos \in {<<Sensed.pos_x, Sensed.pos_y>>} :
            /\ exc # IndexError
            /\ Get(Sensed, pos[1], pos[2]) \in {Path, Start}
            /\ StrictlyInside(Sensed)
            /\ \A n \in Neighbours(pos) : Get(Sensed, n[1], n[2]) # None
            /\ is_interesting(Sensed, pos[1], pos[2]) = "False"
            /\ pos \notin Range(all_interesting(Sensed).list)
            /\ \A k \in Yielding(SensedPaths) : SensedPaths[k].path # <<>>

\* after a move, the position was interesting before remember_surroundings
C18_Witness ==
    /\ Explored
    /\ turns >= 2
    /\ exc = NoExc
    /\ <<before.pos_x, before.pos_y>> \in Range(all_interesting(before).list)
    /\ <<before.pos_x, before.pos_y>> \notin Range(all_interesting(Sensed).list)

\* ------------------------------------------------------------------------
\* The claims about the storage and the bounds
\* ------------------------------------------------------------------------
\* the storage is a rectangle of _map_width columns of _map_height entries
Dense(self) ==
    /\ Len(self.map) = self.map_x1 - self.map_x0 + 1
    /\ \A c \in 1..Len(self.map) : Len(self.map[c]) = self.map_y1 - self.map_y0 + 1

\* from old to new each bound stays or moves outwards by one
GrowsByOne(old, new) ==
    /\ new.map_x0 \in {old.map_x0 - 1, old.map_x0}
    /\ new.map_x1 \in {old.map_x1, old.map_x1 + 1}
    /\ new.map_y0 \in {old.map_y0 - 1, old.map_y0}
    /\ new.map_y1 \in {old.map_y1, old.map_y1 + 1}

\* C19: the storage is a dense rectangle matching the bounds before a call,
\* after its growth steps and after the call, and from before a call to
\* after it no bound moves inwards or by more than one.
C19_DenseAndGrowing ==
    /\ Dense(before) /\ Dense(grown) /\ Dense(player)
    /\ GrowsByOne(before, grown)
    /\ GrowsByOne(before, player)
    /\ Explored => Dense(Sensed)

\* a later turn that grows the map to the right alone
C19_Witness ==
    /\ Explored
    /\ turns >= 3
    /\ player.map_x1 = before.map_x1 + 1
    /\ player.map_x0 = before.map_x0
    /\ player.map_y0 = before.map_y0 /\ player.map_y1 = before.map_y1
    /\ Len(player.map) >= 4

\* ------------------------------------------------------------------------
\* The claim about the priority queue of find_path_to
\* ------------------------------------------------------------------------
\* p holds at most one entry for a position
SingleEntries(p) ==
    \A i, j \in 1..Len(p) : p[i][2] = p[j][2] => i = j

\* the estimate that v records for a queued position is the priority of
\* its entry
RecordedPriorities(p, v) ==
    \A i \in 1..Len(p) : p[i][2] \in DOMAIN v => v[p[i][2]][1] = p[i][1]

\* C20: at every point of a find_path_to run the queue holds at most one
\* entry for a position (so no entry is added next to an older one for the
\* same position) and the estimate recorded for a queued position is the
\* priority of its entry (so the entry popped next is never a stale one).
C20_QueueHasSingleEntries ==
    found # NotRun =>
        \E trace \in {find_path_to_Trace(player, target[1], target[2])} :
            \A n \in 1..Len(trace) :
                /\ SingleEntries(trace[n].p)
                /\ RecordedPriorities(trace[n].p, trace[n].v)

\* the for loop comes to a neighbour that the queue holds an entry for, and
\* the queue holds several entries
C20_Witness ==
    /\ found # NotRun
    /\ found.kind = "path"
    /\ \E trace \in {find_path_to_Trace(player, target[1], target[2])} :
           \E n \in 1..Len(trace) :
               /\ trace[n].queued
               /\ trace[n].nxt \in DOMAIN trace[n].v
               /\ Len(trace[n].p) >= 2
               /\ SingleEntries(trace[n].p)

=============================================================================
